---- MODULE Spec2Model ----
(***************************************************************************)
(* Model of the fineprint backend scraper (backend/services/               *)
(* scraper_service.py): the static strategy, the dynamic strategy and the  *)
(* mode-selection orchestrator scrape_page_async (Spec), the text          *)
(* normalizer clean_and_deduplicate_text (SpecClean), the link discoverer  *)
(* find_terms_links (SpecLinks), the extractor                             *)
(* extract_fine_print_sections (SpecExtract) and the request handler       *)
(* analyze_url of backend/main.py with the scan limits of                  *)
(* backend/database.py (SpecRequests).                                     *)
(*                                                                         *)
(* Text is modelled by TLA+ strings; Len, \o and SubSeq act on them        *)
(* character by character, as Python's len, + and slicing do.              *)
(***************************************************************************)
EXTENDS Integers, Sequences, FiniteSets, TLC

VARIABLES
    mode,                     \* requested ScraperMode of the call
    url,                      \* requested URL of the call
    max_related_pages,        \* argument of scrape_page_async
    enable_dynamic_scraping,  \* settings.enable_dynamic_scraping
    pc,                       \* position of the call
    all_text,                 \* _scrape_static: list of sections
    final_url,                \* _scrape_static: resolved URL of the main page
    terms_links,              \* _scrape_static: result of find_terms_links
    i,                        \* _scrape_static: index of the related-page loop
    fetch_log,                \* every fetch_page call, in order
    static_result,            \* what _scrape_static returned
    dynamic_result,           \* what _scrape_dynamic returned
    returned,                 \* what scrape_page_async returned
    static_calls,             \* number of invocations of _scrape_static
    dynamic_calls,            \* number of invocations of _scrape_dynamic
    browser,                  \* _scrape_dynamic: "none", "open" or "closed"
    dyn_local,                \* _scrape_dynamic: the local variable result
    exc,                      \* _scrape_dynamic: exception in flight, <<>> if none
    raw_text,                 \* clean_and_deduplicate_text: the argument text
    max_length,               \* clean_and_deduplicate_text: the argument
    cleaned,                  \* <<what the call returned>>, <<>> before it
    recleaned,                \* <<what a call on that result returned>>
    page,                     \* find_terms_links, extract_fine_print_sections: the argument soup
    page_url,                 \* find_terms_links: the argument base_url
    found,                    \* <<what find_terms_links returned>>, <<>> before
    fine_print,               \* <<what extract_fine_print_sections returned>>
    disable_scan_limits,      \* settings.disable_scan_limits
    users,                    \* the users table: user_id -> <<>> or <<row>>
    reqs                      \* the analyze_url requests being served

vars == <<mode, url, max_related_pages, enable_dynamic_scraping, pc, all_text,
          final_url, terms_links, i, fetch_log, static_result, dynamic_result,
          returned, static_calls, dynamic_calls, browser, dyn_local, exc,
          raw_text, max_length, cleaned, recleaned, page, page_url, found,
          fine_print, disable_scan_limits, users, reqs>>

(***************************************************************************)
(* Settings (backend/config.py).                                           *)
(***************************************************************************)
static_content_threshold == 200

dynamic_scraping_timeout == 10

(***************************************************************************)
(* Bounds of the model.                                                    *)
(***************************************************************************)
MaxRelated == 2

MaxSentences == 3

MaxAnchors == 3

MaxElements == 3

MaxRequests == 2

(***************************************************************************)
(* String helpers: the Python str methods the code uses.                   *)
(***************************************************************************)
Char(s, k) == SubSeq(s, k, k)

StartsWith(s, p) == Len(s) >= Len(p) /\ SubSeq(s, 1, Len(p)) = p

Contains(s, sub) ==
    \E k \in 1..(Len(s) - Len(sub) + 1) : SubSeq(s, k, k + Len(sub) - 1) = sub

\* position of the first occurrence of sub in s at or after from, 0 if none
Find(s, sub, from) ==
    LET hits == {k \in from..(Len(s) - Len(sub) + 1) :
                    SubSeq(s, k, k + Len(sub) - 1) = sub}
    IN  IF hits = {} THEN 0 ELSE CHOOSE k \in hits : \A m \in hits : k <= m

UpperAlpha == "ABCDEFGHIJKLMNOPQRSTUVWXYZ"

LowerAlpha == "abcdefghijklmnopqrstuvwxyz"

LowerChar(c) ==
    LET ks == {k \in 1..26 : Char(UpperAlpha, k) = c}
    IN  IF ks = {} THEN c ELSE Char(LowerAlpha, CHOOSE k \in ks : TRUE)

RECURSIVE Lower(_)
Lower(s) == IF s = "" THEN "" ELSE LowerChar(Char(s, 1)) \o Lower(SubSeq(s, 2, Len(s)))

\* re.search(pattern, s, re.I) for a pattern without metacharacters
SearchI(pattern, s) == Contains(Lower(s), Lower(pattern))

IsSpace(c) == c \in {" ", "\n", "\t", "\r"}

RECURSIVE LStrip(_)
LStrip(s) ==
    IF s # "" /\ IsSpace(Char(s, 1)) THEN LStrip(SubSeq(s, 2, Len(s))) ELSE s

RECURSIVE RStrip(_)
RStrip(s) ==
    IF s # "" /\ IsSpace(Char(s, Len(s))) THEN RStrip(SubSeq(s, 1, Len(s) - 1)) ELSE s

Strip(s) == LStrip(RStrip(s))

RECURSIVE Join(_, _)
Join(parts, sep) ==
    IF parts = <<>> THEN ""
    ELSE IF Len(parts) = 1 THEN parts[1]
    ELSE parts[1] \o sep \o Join(Tail(parts), sep)

\* s.split(sep) for a one-character separator
RECURSIVE Split(_, _)
Split(s, sep) ==
    LET k == Find(s, sep, 1)
    IN  IF k = 0 THEN <<s>>
        ELSE <<SubSeq(s, 1, k - 1)>> \o Split(SubSeq(s, k + 1, Len(s)), sep)

RECURSIVE Rep(_, _)
Rep(s, n) == IF n = 0 THEN "" ELSE s \o Rep(s, n - 1)

NonEmpty(s) == s # ""

(***************************************************************************)
(* Parsed documents.  A document (a BeautifulSoup object) is the sequence  *)
(* of its elements in document order; an element has a tag, the attributes *)
(* class, id and href (<<>> when the attribute is absent, <<v>> when it    *)
(* has the value v) and its own text.                                      *)
(***************************************************************************)
Element(tag, class, id, href, text) ==
    [tag |-> tag, class |-> class, id |-> id, href |-> href, text |-> text]

\* the dagger and double-dagger characters of the source are written | and ~ here
DAGGER == "|"

DOUBLE_DAGGER == "~"

\* find_all(..., attr=re.compile(pattern, re.I)): some alternative occurs in
\* the attribute's value; an absent attribute never matches
AttrSearch(alternatives, attr) ==
    attr # <<>> /\ \E p \in alternatives : SearchI(p, attr[1])

FOOTER_PATTERN == {"footer"}

\* disclaimer|fine-?print|legal|terms
DISCLAIMER_PATTERN == {"disclaimer", "fineprint", "fine-print", "legal", "terms"}

\* element.get_text(separator=' ', strip=True)
ElementText(e) == Strip(e.text)

\* soup.get_text(separator=' ', strip=True)
GetTextStripped(soup) ==
    LET strings == [k \in 1..Len(soup) |-> ElementText(soup[k])]
    IN  Join(SelectSeq(strings, NonEmpty), " ")

\* soup.get_text(separator='\n')
GetTextLines(soup) ==
    LET HasText(e) == e.text # ""
        nodes == SelectSeq(soup, HasText)
    IN  Join([k \in 1..Len(nodes) |-> nodes[k].text], "\n")

extract_fine_print_sections(soup) ==
    LET IsFooter(e) ==
            e.tag \in {"footer", "div"} /\ AttrSearch(FOOTER_PATTERN, e.class)
        IsDisclaimer(e) ==
            /\ e.tag \in {"div", "section", "p", "span"}
            /\ AttrSearch(DISCLAIMER_PATTERN, e.class)
        IsDisclaimerById(e) ==
            /\ e.tag \in {"div", "section", "p"}
            /\ AttrSearch(DISCLAIMER_PATTERN, e.id)
        IsSmall(e) == e.tag = "small"
        Texts(sel) ==
            SelectSeq([k \in 1..Len(sel) |-> ElementText(sel[k])], NonEmpty)
        HasMarker(line) ==
            Contains(line, "*") \/ Contains(line, DAGGER)
                \/ Contains(line, DOUBLE_DAGGER)
        marked == SelectSeq(Split(GetTextLines(soup), "\n"), HasMarker)
        asterisk_lines == [k \in 1..Len(marked) |-> Strip(marked[k])]
        fine_print_text ==
            Texts(SelectSeq(soup, IsFooter))
                \o Texts(SelectSeq(soup, IsDisclaimer))
                \o Texts(SelectSeq(soup, IsDisclaimerById))
                \o Texts(SelectSeq(soup, IsSmall))
                \o asterisk_lines
    IN  Join(fine_print_text, "\n")

(***************************************************************************)
(* urllib.parse.urljoin, for URLs without query, fragment, parameters and  *)
(* dot segments.                                                           *)
(***************************************************************************)
SCHEME_CHARS == "abcdefghijklmnopqrstuvwxyzABCDEFGHIJKLMNOPQRSTUVWXYZ0123456789+-."

IsAlpha(c) == Contains(LowerAlpha, c) \/ Contains(UpperAlpha, c)

\* the scheme urlsplit finds in u, "" if none
UrlScheme(u) ==
    LET k == Find(u, ":", 1)
    IN  IF /\ k > 1
           /\ IsAlpha(Char(u, 1))
           /\ \A m \in 1..(k - 1) : Contains(SCHEME_CHARS, Char(u, m))
        THEN Lower(SubSeq(u, 1, k - 1))
        ELSE ""

\* u without its scheme and the colon
UrlRest(u) ==
    IF UrlScheme(u) = "" THEN u ELSE SubSeq(u, Find(u, ":", 1) + 1, Len(u))

\* the network location of "//netloc/path", "" if rest has none
UrlNetloc(rest) ==
    IF ~StartsWith(rest, "//") THEN ""
    ELSE LET k == Find(rest, "/", 3)
         IN  IF k = 0 THEN SubSeq(rest, 3, Len(rest)) ELSE SubSeq(rest, 3, k - 1)

UrlPath(rest) ==
    IF ~StartsWith(rest, "//") THEN rest
    ELSE LET k == Find(rest, "/", 3)
         IN  IF k = 0 THEN "" ELSE SubSeq(rest, k, Len(rest))

\* position of the last "/" of path, 0 if none
RECURSIVE LastSlash(_)
LastSlash(path) ==
    IF path = "" THEN 0
    ELSE IF Char(path, Len(path)) = "/" THEN Len(path)
    ELSE LastSlash(SubSeq(path, 1, Len(path) - 1))

USES_RELATIVE ==
    {"", "ftp", "http", "gopher", "nntp", "imap", "wais", "file", "https",
     "shttp", "mms", "prospero", "rtsp", "rtspu", "sftp", "svn", "svn+ssh",
     "ws", "wss"}

urljoin(base, u) ==
    IF base = "" THEN u
    ELSE IF u = "" THEN base
    ELSE
        LET bscheme == UrlScheme(base)
            bnetloc == UrlNetloc(UrlRest(base))
            bpath   == UrlPath(UrlRest(base))
            scheme  == IF UrlScheme(u) = "" THEN bscheme ELSE UrlScheme(u)
            netloc  == UrlNetloc(UrlRest(u))
            path    == UrlPath(UrlRest(u))
            dir     == IF LastSlash(bpath) = 0 THEN "/"
                       ELSE SubSeq(bpath, 1, LastSlash(bpath))
        IN  IF scheme # bscheme \/ scheme \notin USES_RELATIVE THEN u
            ELSE IF netloc # "" THEN scheme \o "://" \o netloc \o path
            ELSE IF path = "" THEN base
            ELSE IF StartsWith(path, "/") THEN scheme \o "://" \o bnetloc \o path
            ELSE scheme \o "://" \o bnetloc \o dir \o path

(***************************************************************************)
(* find_terms_links                                                        *)
(***************************************************************************)
TERMS_PATTERNS ==
    <<"terms", "t&c", "t-c", "conditions", "legal", "disclaimer",
      "eligibility", "requirements", "privacy", "policy", "agreement">>

IsTermsLink(link) ==
    LET href == link.href[1]
        link_text == Lower(Strip(link.text))
    IN  \E k \in 1..Len(TERMS_PATTERNS) :
            SearchI(TERMS_PATTERNS[k], link_text) \/ SearchI(TERMS_PATTERNS[k], href)

\* variant: no test against found_urls
RECURSIVE TermsLinksLoop_NoDedup(_, _, _)
TermsLinksLoop_NoDedup(anchors, base_url, links) ==
    IF anchors = <<>> THEN links
    ELSE
        LET link == Head(anchors)
            absolute_url == urljoin(base_url, link.href[1])
        IN  IF IsTermsLink(link) /\ StartsWith(absolute_url, "http")
            THEN TermsLinksLoop_NoDedup(Tail(anchors), base_url, Append(links, absolute_url))
            ELSE TermsLinksLoop_NoDedup(Tail(anchors), base_url, links)

\* the loop of find_terms_links over the anchors, links being the list so far
\* (found_urls is the set of its elements)
RECURSIVE TermsLinksLoop(_, _, _)
TermsLinksLoop(anchors, base_url, links) ==
    IF anchors = <<>> THEN links
    ELSE
        LET link == Head(anchors)
            absolute_url == urljoin(base_url, link.href[1])
            found_urls == {links[k] : k \in 1..Len(links)}
        IN  IF /\ IsTermsLink(link)
               /\ absolute_url \notin found_urls
               /\ StartsWith(absolute_url, "http")
            THEN TermsLinksLoop(Tail(anchors), base_url, Append(links, absolute_url))
            ELSE TermsLinksLoop(Tail(anchors), base_url, links)

find_terms_links(soup, base_url) ==
    LET IsAnchor(e) == e.tag = "a" /\ e.href # <<>>
    IN  TermsLinksLoop(SelectSeq(soup, IsAnchor), base_url, <<>>)

(***************************************************************************)
(* ScrapeResult                                                            *)
(***************************************************************************)
\* error is <<>> for None and <<message>> for a string
ScrapeResult(u, final, content, char_count, mode_used, success, error) ==
    [url |-> u, final_url |-> final, content |-> content,
     char_count |-> char_count, mode_used |-> mode_used,
     success |-> success, error |-> error]

\* value of a result variable before the strategy has returned
NoResult == ScrapeResult("", "", "", 0, "NONE", FALSE, <<>>)

\* variant: the threshold itself counts as incomplete
is_likely_incomplete_le(result) == result.char_count <= static_content_threshold

is_likely_incomplete(result) == result.char_count < static_content_threshold

ScraperMode == {"STATIC", "DYNAMIC", "AUTO"}

(***************************************************************************)
(* The web the call runs against: what a fetch or a navigation may return. *)
(***************************************************************************)
Urls == {"example.com/promo", "https://shop.example.com/deals/offer"}

\* URLs of 49 and of 50 characters
LongUrls ==
    {"https://shop.example.com/deals/summer-sale/offers",
     "https://shop.example.com/deals/summer-sale/offers1"}

\* 216 characters
LongText == Rep("Offer valid for new customers only. ", 6)

\* 200 characters, no whitespace at either end
EdgeText == Rep("No refunds after 30d", 10)

\* 192 characters: below the threshold, above it once a section label is added
NearText == Rep("Cancel anytime* ", 12)

ThinPage == << Element("div", <<>>, <<"root">>, <<>>, "") >>

FooterPage ==
    << Element("p", <<>>, <<>>, <<>>, " Big sale "),
       Element("footer", <<"site-Footer">>, <<>>, <<>>, "*Offer ends soon. Terms apply."),
       Element("a", <<>>, <<>>, <<"/about">>, "About us") >>

LinksPage ==
    << Element("div", <<"legal-note">>, <<>>, <<>>, "See terms."),
       Element("a", <<>>, <<>>, <<"/terms">>, "Terms"),
       Element("a", <<>>, <<>>, <<"mailto:legal@example.com">>, "Legal"),
       Element("a", <<>>, <<>>, <<"/terms">>, "T&C"),
       Element("a", <<>>, <<>>, <<"privacy.html">>, "Privacy Policy"),
       Element("a", <<>>, <<>>, <<"https://example.org/rules">>, "Eligibility") >>

RichPage ==
    << Element("p", <<>>, <<"terms-summary">>, <<>>, LongText),
       Element("small", <<>>, <<>>, <<>>, "Fees may apply."),
       Element("a", <<>>, <<>>, <<"/legal/agreement">>, "User agreement"),
       Element("a", <<>>, <<>>, <<"/contact">>, "Contact") >>

\* 50 characters
Footer50Text == "Prices exclude tax. Offer ends 31 Dec. No returns."

\* a page whose whole visible text is a footer of 50 characters
Footer50Page ==
    << Element("footer", <<"page-footer">>, <<>>, <<>>, Footer50Text) >>

MainPages == {ThinPage, FooterPage, LinksPage, RichPage, Footer50Page}

RelatedPages ==
    { << >>,
      << Element("p", <<>>, <<>>, <<>>, "No refunds.") >>,
      << Element("p", <<>>, <<>>, <<>>, LongText) >> }

RenderedPages ==
    { << >>,
      << Element("p", <<>>, <<>>, <<>>, "Loading") >>,
      << Element("p", <<>>, <<>>, <<>>, NearText) >>,
      << Element("p", <<>>, <<>>, <<>>, EdgeText) >>,
      << Element("p", <<>>, <<>>, <<>>, LongText) >> }

\* str(e) of the exceptions requests and playwright raise
FetchErrors == {"404 Client Error", "Connection refused"}

RenderErrors == {"net::ERR_NAME_NOT_RESOLVED", "Target closed"}

\* fetch_page: the URL the request is sent to
FetchUrl(u) ==
    IF StartsWith(u, "http://") \/ StartsWith(u, "https://") THEN u
    ELSE "https://" \o u

\* one call fetch_page(u): the URL given, the URL requested, and whether the
\* call returned (TRUE) or raised (FALSE)
Fetched(u, ok) == [url |-> u, sent |-> FetchUrl(u), ok |-> ok]

\* response.url / page.url: the requested URL or the target of a redirect
ResolvedUrls(u) == {u, "https://www.example.com/landing/"}

\* seq[:n] of Python
Prefix(seq, n) ==
    IF n >= 0 THEN SubSeq(seq, 1, IF n < Len(seq) THEN n ELSE Len(seq))
    ELSE SubSeq(seq, 1, Len(seq) + n)

\* the anchors (and one anchor without href) the pages given to
\* find_terms_links are made of
Anchors ==
    { Element("a", <<>>, <<>>, <<"/terms">>, "Terms"),
      Element("a", <<>>, <<>>, <<"https://example.com/terms">>, " T&C "),
      Element("a", <<>>, <<>>, <<"mailto:legal@example.com">>, "Legal"),
      Element("a", <<>>, <<>>, <<"httpx://example.com/policy">>, "Policy"),
      Element("a", <<>>, <<>>, <<"privacy.html">>, "PRIVACY"),
      Element("a", <<>>, <<>>, <<"/about">>, "About us"),
      Element("a", <<>>, <<>>, <<>>, "Terms") }

\* the pages: up to MaxAnchors of these elements
AnchorPages == UNION {[1..n -> Anchors] : n \in 0..MaxAnchors}

BaseUrls == {"https://example.com/promo", "https://shop.example.com/deals/offer"}

\* the elements the pages given to extract_fine_print_sections are made of
FinePrintElements ==
    { Element("footer", <<>>, <<>>, <<>>, "(c) 2026 Example Inc. All rights reserved."),
      Element("footer", <<"site-Footer">>, <<>>, <<>>, " Offer ends soon. "),
      Element("div", <<"page-footer dark">>, <<>>, <<>>, "Prices exclude tax."),
      Element("section", <<"footer">>, <<>>, <<>>, "No cash value."),
      Element("p", <<>>, <<>>, <<>>, "Big sale"),
      Element("small", <<>>, <<>>, <<>>, "Fees may apply.") }

\* the pages: up to MaxElements of these elements
FinePrintPages == UNION {[1..n -> FinePrintElements] : n \in 0..MaxElements}

(***************************************************************************)
(* clean_and_deduplicate_text                                              *)
(***************************************************************************)
\* re.sub(r'\s+', ' ', s): every run of whitespace becomes one space
RECURSIVE Collapse(_)
Collapse(s) ==
    LET spaces == {k \in 1..Len(s) : IsSpace(Char(s, k))}
    IN  IF spaces = {} THEN s
        ELSE LET first == CHOOSE k \in spaces : \A m \in spaces : k <= m
             IN  SubSeq(s, 1, first - 1) \o " "
                     \o Collapse(LStrip(SubSeq(s, first, Len(s))))

\* the test of the loop body on one piece of text.split('.'), seen being the
\* set of the sentences kept so far
KeepSentence_NoSeen(piece, seen) ==
    LET sentence == Strip(piece)
    IN  sentence # "" /\ Len(sentence) > 10

KeepSentence_AtLeast10(piece, seen) ==
    LET sentence == Strip(piece)
    IN  sentence # "" /\ sentence \notin seen /\ Len(sentence) >= 10

KeepSentence_Min12(piece, seen) ==
    LET sentence == Strip(piece)
    IN  sentence # "" /\ sentence \notin seen /\ Len(sentence) > 11

KeepSentence(piece, seen) ==
    LET sentence == Strip(piece)
    IN  sentence # "" /\ sentence \notin seen /\ Len(sentence) > 10

\* the loop over the pieces, unique_sentences being the list so far (seen is
\* the set of its elements)
RECURSIVE UniqueLoop(_, _)
UniqueLoop(sentences, unique_sentences) ==
    IF sentences = <<>> THEN unique_sentences
    ELSE
        LET seen == {unique_sentences[k] : k \in 1..Len(unique_sentences)}
        IN  UniqueLoop(Tail(sentences),
                       IF KeepSentence(Head(sentences), seen)
                       THEN Append(unique_sentences, Strip(Head(sentences)))
                       ELSE unique_sentences)

TRUNCATION_MARKER == "... [content truncated]"

\* variant: a text of exactly max_len characters is truncated too
clean_and_deduplicate_text_CutsAtLimit(text, max_len) ==
    LET collapsed == Collapse(text)
        joined == Join(UniqueLoop(Split(collapsed, "."), <<>>), ". ")
    IN  IF Len(joined) >= max_len
        THEN Prefix(joined, max_len) \o TRUNCATION_MARKER
        ELSE joined

clean_and_deduplicate_text_TestsInput(text, max_len) ==
    LET collapsed == Collapse(text)
        joined == Join(UniqueLoop(Split(collapsed, "."), <<>>), ". ")
    IN  IF Len(collapsed) > max_len
        THEN Prefix(joined, max_len) \o TRUNCATION_MARKER
        ELSE joined

clean_and_deduplicate_text(text, max_len) ==
    LET collapsed == Collapse(text)
        joined == Join(UniqueLoop(Split(collapsed, "."), <<>>), ". ")
    IN  IF Len(joined) > max_len
        THEN Prefix(joined, max_len) \o TRUNCATION_MARKER
        ELSE joined

\* the sentences the raw texts are made of
Sentences ==
    {"Short", "Fees apply", "No refunds!", "Fees may apply", "Terms may vary",
     "Fees  may\n\tapply", "Fees may apply today"}

\* the raw texts: up to MaxSentences sentences separated by ". ", with or
\* without a final period
RawTexts ==
    LET Lists == UNION {[1..n -> Sentences] : n \in 1..MaxSentences}
    IN  UNION {{Join(l, ". "), Join(l, ". ") \o "."} : l \in Lists}

DEFAULT_MAX_LENGTH == 100000

MaxLengths == {30, DEFAULT_MAX_LENGTH}

(***************************************************************************)
(* Initial state: a call scrape_page_async(url, mode, max_related_pages)   *)
(* is about to start.                                                      *)
(***************************************************************************)
\* no call of clean_and_deduplicate_text is under way
NoCleanCall ==
    /\ raw_text = ""
    /\ max_length = 0
    /\ cleaned = <<>>
    /\ recleaned = <<>>

\* no call of find_terms_links or extract_fine_print_sections is under way
NoPageCall ==
    /\ page = <<>>
    /\ page_url = ""
    /\ found = <<>>
    /\ fine_print = <<>>

\* no analyze_url request is being served
NoRequest ==
    /\ disable_scan_limits = TRUE
    /\ users = <<>>
    /\ reqs = <<>>

NoPureCall == NoCleanCall /\ NoPageCall /\ NoRequest

Init ==
    /\ NoPureCall
    /\ mode \in ScraperMode
    /\ url \in Urls
    /\ max_related_pages \in 0..MaxRelated
    /\ enable_dynamic_scraping \in BOOLEAN
    /\ pc = "start"
    /\ all_text = <<>>
    /\ final_url = ""
    /\ terms_links = <<>>
    /\ i = 0
    /\ fetch_log = <<>>
    /\ static_result = NoResult
    /\ dynamic_result = NoResult
    /\ returned = NoResult
    /\ static_calls = 0
    /\ dynamic_calls = 0
    /\ browser = "none"
    /\ dyn_local = NoResult
    /\ exc = <<>>

static_vars == <<all_text, final_url, terms_links, i, fetch_log, static_result>>

dynamic_vars == <<dynamic_result, browser, dyn_local, exc>>

call_vars == <<mode, url, max_related_pages, enable_dynamic_scraping>>

clean_vars == <<raw_text, max_length, cleaned, recleaned>>

page_vars == <<page, page_url, found, fine_print>>

request_vars == <<disable_scan_limits, users, reqs>>

pure_vars == <<clean_vars, page_vars, request_vars>>

(***************************************************************************)
(* scrape_page_async: dispatch on the mode                                 *)
(***************************************************************************)
CallStatic ==
    /\ static_calls' = static_calls + 1
    /\ pc' = "static_main"
    /\ UNCHANGED dynamic_calls

CallDynamic ==
    /\ dynamic_calls' = dynamic_calls + 1
    /\ pc' = "dyn_launch"
    /\ UNCHANGED static_calls

ModeStatic ==
    /\ pc = "start"
    /\ mode = "STATIC"
    /\ CallStatic
    /\ UNCHANGED <<pure_vars, call_vars, static_vars, dynamic_vars, returned>>

\* variant: the enable flag is read the wrong way round
ModeDynamic_InvertedFlag ==
    /\ pc = "start"
    /\ mode = "DYNAMIC"
    /\ IF enable_dynamic_scraping THEN CallStatic ELSE CallDynamic
    /\ UNCHANGED <<pure_vars, call_vars, static_vars, dynamic_vars, returned>>

ModeDynamic ==
    /\ pc = "start"
    /\ mode = "DYNAMIC"
    /\ IF ~enable_dynamic_scraping THEN CallStatic ELSE CallDynamic
    /\ UNCHANGED <<pure_vars, call_vars, static_vars, dynamic_vars, returned>>

ModeAuto ==
    /\ pc = "start"
    /\ mode = "AUTO"
    /\ CallStatic
    /\ UNCHANGED <<pure_vars, call_vars, static_vars, dynamic_vars, returned>>

(***************************************************************************)
(* _scrape_static                                                          *)
(***************************************************************************)
StaticFetchMainFails ==
    /\ pc = "static_main"
    /\ \E e \in FetchErrors :
          static_result' =
              ScrapeResult(url, url, "", 0, "STATIC", FALSE,
                           <<"Failed to fetch webpage: " \o e>>)
    /\ fetch_log' = Append(fetch_log, Fetched(url, FALSE))
    /\ pc' = "after_static"
    /\ UNCHANGED <<pure_vars, call_vars, all_text, final_url, terms_links, i, dynamic_vars,
                   returned, static_calls, dynamic_calls>>

\* fetch_page returns; BeautifulSoup, the extractor and the link discoverer
\* are total on every markup (they raise nothing)
StaticFetchMainOk ==
    /\ pc = "static_main"
    /\ \E soup \in MainPages, resolved \in ResolvedUrls(FetchUrl(url)) :
          LET main_text == extract_fine_print_sections(soup)
              full_text == GetTextStripped(soup)
          IN  /\ all_text' =
                    (IF main_text # ""
                     THEN <<"=== MAIN PAGE (" \o resolved \o ") ===\n" \o main_text>>
                     ELSE <<>>)
                    \o <<"\n=== FULL PAGE CONTENT ===\n" \o full_text>>
              /\ final_url' = resolved
              /\ terms_links' = find_terms_links(soup, resolved)
    /\ i' = 1
    /\ fetch_log' = Append(fetch_log, Fetched(url, TRUE))
    /\ pc' = "static_related"
    /\ UNCHANGED <<pure_vars, call_vars, static_result, dynamic_vars, returned,
                   static_calls, dynamic_calls>>

\* variant: the loop runs over terms_links, not over its first
\* max_related_pages elements
StaticFetchRelatedOk_NoLimit ==
    /\ pc = "static_related"
    /\ i <= Len(terms_links)
    /\ LET terms_url == terms_links[i]
       IN  /\ \E terms_soup \in RelatedPages :
                 all_text' = Append(all_text,
                     "\n=== TERMS PAGE (" \o terms_url \o ") ===\n"
                         \o GetTextStripped(terms_soup))
           /\ fetch_log' = Append(fetch_log, Fetched(terms_url, TRUE))
    /\ i' = i + 1
    /\ UNCHANGED <<pure_vars, call_vars, pc, final_url, terms_links, static_result,
                   dynamic_vars, returned, static_calls, dynamic_calls>>

\* one iteration of the loop over terms_links[:max_related_pages], the fetch
\* of the related page succeeding
StaticFetchRelatedOk ==
    /\ pc = "static_related"
    /\ i <= Len(Prefix(terms_links, max_related_pages))
    /\ LET terms_url == terms_links[i]
       IN  /\ \E terms_soup \in RelatedPages :
                 all_text' = Append(all_text,
                     "\n=== TERMS PAGE (" \o terms_url \o ") ===\n"
                         \o GetTextStripped(terms_soup))
           /\ fetch_log' = Append(fetch_log, Fetched(terms_url, TRUE))
    /\ i' = i + 1
    /\ UNCHANGED <<pure_vars, call_vars, pc, final_url, terms_links, static_result,
                   dynamic_vars, returned, static_calls, dynamic_calls>>

\* variant: the exception of a related fetch is not caught in the loop and
\* reaches the outer except clause
StaticFetchRelatedFails_Aborts ==
    /\ pc = "static_related"
    /\ i <= Len(Prefix(terms_links, max_related_pages))
    /\ fetch_log' = Append(fetch_log, Fetched(terms_links[i], FALSE))
    /\ \E e \in FetchErrors :
          static_result' =
              ScrapeResult(url, url, "", 0, "STATIC", FALSE,
                           <<"Failed to fetch webpage: " \o e>>)
    /\ pc' = "after_static"
    /\ UNCHANGED <<pure_vars, call_vars, all_text, final_url, terms_links, i,
                   dynamic_vars, returned, static_calls, dynamic_calls>>

\* one iteration of the loop, the fetch raising: logged, then continue
StaticFetchRelatedFails ==
    /\ pc = "static_related"
    /\ i <= Len(Prefix(terms_links, max_related_pages))
    /\ fetch_log' = Append(fetch_log, Fetched(terms_links[i], FALSE))
    /\ i' = i + 1
    /\ UNCHANGED <<pure_vars, call_vars, pc, all_text, final_url, terms_links,
                   static_result, dynamic_vars, returned, static_calls,
                   dynamic_calls>>

\* variant: the result carries the requested mode
StaticFinish_RequestedMode ==
    /\ pc = "static_related"
    /\ i > Len(Prefix(terms_links, max_related_pages))
    /\ LET combined_text == Join(all_text, "\n\n")
           char_count == Len(combined_text)
       IN  static_result' =
               ScrapeResult(url, final_url, combined_text, char_count,
                            mode, TRUE, <<>>)
    /\ pc' = "after_static"
    /\ UNCHANGED <<pure_vars, call_vars, all_text, final_url, terms_links, i, fetch_log,
                   dynamic_vars, returned, static_calls, dynamic_calls>>

StaticFinish ==
    /\ pc = "static_related"
    /\ i > Len(Prefix(terms_links, max_related_pages))
    /\ LET combined_text == Join(all_text, "\n\n")
           char_count == Len(combined_text)
       IN  static_result' =
               ScrapeResult(url, final_url, combined_text, char_count,
                            "STATIC", TRUE, <<>>)
    /\ pc' = "after_static"
    /\ UNCHANGED <<pure_vars, call_vars, all_text, final_url, terms_links, i, fetch_log,
                   dynamic_vars, returned, static_calls, dynamic_calls>>

(***************************************************************************)
(* _scrape_dynamic                                                         *)
(***************************************************************************)
TimeoutMessage == "Timeout after " \o ToString(dynamic_scraping_timeout) \o " seconds"

\* variant: the message is not passed on
DynamicFailure_NoError(message) ==
    ScrapeResult(url, url, "", 0, "DYNAMIC", FALSE, <<>>)

DynamicFailure(message) ==
    ScrapeResult(url, url, "", 0, "DYNAMIC", FALSE, <<message>>)

\* async_playwright() and p.chromium.launch(headless=True)
DynLaunch ==
    /\ pc = "dyn_launch"
    /\ \/ /\ browser' = "open"
          /\ pc' = "dyn_new_page"
          /\ exc' = exc
       \/ /\ \E e \in RenderErrors : exc' = <<e>>
          /\ pc' = "dyn_except"
          /\ browser' = browser
    /\ UNCHANGED <<pure_vars, call_vars, static_vars, dynamic_result, dyn_local, returned,
                   static_calls, dynamic_calls>>

\* browser.new_context(...) and context.new_page(), outside the inner try
DynNewPage ==
    /\ pc = "dyn_new_page"
    /\ \/ /\ pc' = "dyn_goto"
          /\ exc' = exc
       \/ /\ \E e \in RenderErrors : exc' = <<e>>
          /\ pc' = "dyn_except"
    /\ UNCHANGED <<pure_vars, call_vars, static_vars, dynamic_result, browser, dyn_local,
                   returned, static_calls, dynamic_calls>>

\* page.goto(url, timeout=..., wait_until='networkidle')
DynGoto ==
    /\ pc = "dyn_goto"
    /\ \/ /\ pc' = "dyn_extract"
          /\ UNCHANGED <<dyn_local, exc>>
       \/ \* except PlaywrightTimeout
          /\ dyn_local' = DynamicFailure(TimeoutMessage)
          /\ pc' = "dyn_close"
          /\ exc' = exc
       \/ \* any other exception: passes through the finally clause
          /\ \E e \in RenderErrors : exc' = <<e>>
          /\ pc' = "dyn_close"
          /\ dyn_local' = dyn_local
    /\ UNCHANGED <<pure_vars, call_vars, static_vars, dynamic_result, browser, returned,
                   static_calls, dynamic_calls>>

\* page.url, page.content(), BeautifulSoup, get_text and the result
DynExtract ==
    /\ pc = "dyn_extract"
    /\ \/ /\ \E soup \in RenderedPages, resolved \in ResolvedUrls(url) :
                LET text_content == GetTextStripped(soup)
                    char_count == Len(text_content)
                IN  dyn_local' =
                        ScrapeResult(url, resolved,
                            "=== DYNAMIC PAGE (" \o resolved \o ") ===\n"
                                \o text_content,
                            char_count, "DYNAMIC", TRUE, <<>>)
          /\ exc' = exc
       \/ /\ \E e \in RenderErrors : exc' = <<e>>
          /\ dyn_local' = dyn_local
    /\ pc' = "dyn_close"
    /\ UNCHANGED <<pure_vars, call_vars, static_vars, dynamic_result, browser, returned,
                   static_calls, dynamic_calls>>

\* finally: await browser.close()
DynClose ==
    /\ pc = "dyn_close"
    /\ \/ /\ browser' = "closed"
          /\ exc' = exc
          /\ pc' = IF exc # <<>> THEN "dyn_except" ELSE "dyn_return"
       \/ /\ \E e \in RenderErrors : exc' = <<e>>
          /\ browser' = browser
          /\ pc' = "dyn_except"
    /\ UNCHANGED <<pure_vars, call_vars, static_vars, dynamic_result, dyn_local, returned,
                   static_calls, dynamic_calls>>

\* return result
DynReturn ==
    /\ pc = "dyn_return"
    /\ dynamic_result' = dyn_local
    /\ pc' = "after_dynamic"
    /\ UNCHANGED <<pure_vars, call_vars, static_vars, browser, dyn_local, exc, returned,
                   static_calls, dynamic_calls>>

\* variant: the outer handler does not catch the exception, which reaches the
\* caller of scrape_page_async
DynExcept_Reraises ==
    /\ pc = "dyn_except"
    /\ pc' = "raised"
    /\ UNCHANGED <<pure_vars, call_vars, static_vars, dynamic_vars, returned,
                   static_calls, dynamic_calls>>

\* except Exception as e
DynExcept ==
    /\ pc = "dyn_except"
    /\ dynamic_result' = DynamicFailure(exc[1])
    /\ exc' = <<>>
    /\ pc' = "after_dynamic"
    /\ UNCHANGED <<pure_vars, call_vars, static_vars, browser, dyn_local, returned,
                   static_calls, dynamic_calls>>

(***************************************************************************)
(* scrape_page_async: after a strategy has returned                        *)
(***************************************************************************)
\* variant: STATIC mode applies the fallback of AUTO mode
ReturnStatic_Fallback ==
    /\ pc = "after_static"
    /\ mode \in {"STATIC", "DYNAMIC"}
    /\ IF /\ mode = "STATIC"
          /\ static_result.success
          /\ is_likely_incomplete(static_result)
          /\ enable_dynamic_scraping
       THEN /\ CallDynamic
            /\ returned' = returned
       ELSE /\ returned' = static_result
            /\ pc' = "done"
            /\ UNCHANGED <<static_calls, dynamic_calls>>
    /\ UNCHANGED <<pure_vars, call_vars, static_vars, dynamic_vars>>

\* return _scrape_static(url, max_related_pages), in STATIC mode and in
\* DYNAMIC mode with dynamic scraping disabled
ReturnStatic ==
    /\ pc = "after_static"
    /\ mode \in {"STATIC", "DYNAMIC"}
    /\ returned' = static_result
    /\ pc' = "done"
    /\ UNCHANGED <<pure_vars, call_vars, static_vars, dynamic_vars, static_calls,
                   dynamic_calls>>

\* variant: every successful static result is escalated
AutoAfterStatic_EscalatesAnySuccess ==
    /\ pc = "after_static"
    /\ mode = "AUTO"
    /\ IF static_result.success /\ enable_dynamic_scraping
       THEN /\ CallDynamic
            /\ returned' = returned
       ELSE /\ returned' = static_result
            /\ pc' = "done"
            /\ UNCHANGED <<static_calls, dynamic_calls>>
    /\ UNCHANGED <<pure_vars, call_vars, static_vars, dynamic_vars>>

\* variant: settings.enable_dynamic_scraping is not tested
AutoAfterStatic_IgnoresFlag ==
    /\ pc = "after_static"
    /\ mode = "AUTO"
    /\ IF static_result.success /\ is_likely_incomplete(static_result)
       THEN /\ CallDynamic
            /\ returned' = returned
       ELSE /\ returned' = static_result
            /\ pc' = "done"
            /\ UNCHANGED <<static_calls, dynamic_calls>>
    /\ UNCHANGED <<pure_vars, call_vars, static_vars, dynamic_vars>>

\* variant: success of the static result is not tested
AutoAfterStatic_EscalatesOnFailure ==
    /\ pc = "after_static"
    /\ mode = "AUTO"
    /\ IF is_likely_incomplete(static_result) /\ enable_dynamic_scraping
       THEN /\ CallDynamic
            /\ returned' = returned
       ELSE /\ returned' = static_result
            /\ pc' = "done"
            /\ UNCHANGED <<static_calls, dynamic_calls>>
    /\ UNCHANGED <<pure_vars, call_vars, static_vars, dynamic_vars>>

\* AUTO: the static result is back
AutoAfterStatic ==
    /\ pc = "after_static"
    /\ mode = "AUTO"
    /\ IF /\ static_result.success
          /\ is_likely_incomplete(static_result)
          /\ enable_dynamic_scraping
       THEN /\ CallDynamic
            /\ returned' = returned
       ELSE /\ returned' = static_result
            /\ pc' = "done"
            /\ UNCHANGED <<static_calls, dynamic_calls>>
    /\ UNCHANGED <<pure_vars, call_vars, static_vars, dynamic_vars>>

\* return await _scrape_dynamic(url), in DYNAMIC mode
ReturnDynamic ==
    /\ pc = "after_dynamic"
    /\ mode = "DYNAMIC"
    /\ returned' = dynamic_result
    /\ pc' = "done"
    /\ UNCHANGED <<pure_vars, call_vars, static_vars, dynamic_vars, static_calls,
                   dynamic_calls>>

\* variant: the result with more characters wins
AutoAfterDynamic_PrefersLonger ==
    /\ pc = "after_dynamic"
    /\ mode = "AUTO"
    /\ returned' =
          IF /\ dynamic_result.success
             /\ dynamic_result.char_count > static_result.char_count
          THEN dynamic_result
          ELSE static_result
    /\ pc' = "done"
    /\ UNCHANGED <<pure_vars, call_vars, static_vars, dynamic_vars, static_calls,
                   dynamic_calls>>

\* variant: a failed dynamic strategy is tried once more
AutoAfterDynamic_RetriesOnce ==
    /\ pc = "after_dynamic"
    /\ mode = "AUTO"
    /\ IF ~dynamic_result.success /\ dynamic_calls < 2
       THEN /\ CallDynamic
            /\ returned' = returned
       ELSE /\ returned' =
                  IF dynamic_result.success /\ ~is_likely_incomplete(dynamic_result)
                  THEN dynamic_result
                  ELSE static_result
            /\ pc' = "done"
            /\ UNCHANGED <<static_calls, dynamic_calls>>
    /\ UNCHANGED <<pure_vars, call_vars, static_vars, dynamic_vars>>

\* AUTO: the dynamic result is back
AutoAfterDynamic ==
    /\ pc = "after_dynamic"
    /\ mode = "AUTO"
    /\ returned' =
          IF dynamic_result.success /\ ~is_likely_incomplete(dynamic_result)
          THEN dynamic_result
          ELSE static_result
    /\ pc' = "done"
    /\ UNCHANGED <<pure_vars, call_vars, static_vars, dynamic_vars, static_calls,
                   dynamic_calls>>

Next ==
    \/ ModeStatic
    \/ ModeDynamic
    \/ ModeAuto
    \/ StaticFetchMainFails
    \/ StaticFetchMainOk
    \/ StaticFetchRelatedOk
    \/ StaticFetchRelatedFails
    \/ StaticFinish
    \/ DynLaunch
    \/ DynNewPage
    \/ DynGoto
    \/ DynExtract
    \/ DynClose
    \/ DynReturn
    \/ DynExcept
    \/ ReturnStatic
    \/ AutoAfterStatic
    \/ ReturnDynamic
    \/ AutoAfterDynamic

Spec == Init /\ [][Next]_vars

\* the call is one coroutine: it takes its next step whenever it has one
FairSpec == Spec /\ WF_vars(Next)

(***************************************************************************)
(* scrape_page_async called with a URL of 49 or 50 characters.             *)
(***************************************************************************)
InitLongUrl ==
    /\ NoPureCall
    /\ mode \in ScraperMode
    /\ url \in LongUrls
    /\ max_related_pages \in 0..MaxRelated
    /\ enable_dynamic_scraping \in BOOLEAN
    /\ pc = "start"
    /\ all_text = <<>>
    /\ final_url = ""
    /\ terms_links = <<>>
    /\ i = 0
    /\ fetch_log = <<>>
    /\ static_result = NoResult
    /\ dynamic_result = NoResult
    /\ returned = NoResult
    /\ static_calls = 0
    /\ dynamic_calls = 0
    /\ browser = "none"
    /\ dyn_local = NoResult
    /\ exc = <<>>

SpecLongUrl == InitLongUrl /\ [][Next]_vars

(***************************************************************************)
(* clean_and_deduplicate_text called on a raw text, and then on its own    *)
(* result with the same max_length.                                        *)
(***************************************************************************)
\* no call of scrape_page_async is under way
NoScrapeCall ==
    /\ mode = "STATIC"
    /\ url = ""
    /\ max_related_pages = 0
    /\ enable_dynamic_scraping = FALSE
    /\ all_text = <<>>
    /\ final_url = ""
    /\ terms_links = <<>>
    /\ i = 0
    /\ fetch_log = <<>>
    /\ static_result = NoResult
    /\ dynamic_result = NoResult
    /\ returned = NoResult
    /\ static_calls = 0
    /\ dynamic_calls = 0
    /\ browser = "none"
    /\ dyn_local = NoResult
    /\ exc = <<>>

scrape_vars == <<call_vars, static_vars, dynamic_vars, returned, static_calls,
                 dynamic_calls>>

InitClean ==
    /\ NoScrapeCall
    /\ pc = "clean"
    /\ raw_text \in RawTexts
    /\ max_length \in MaxLengths
    /\ cleaned = <<>>
    /\ recleaned = <<>>
    /\ NoPageCall
    /\ NoRequest

Clean ==
    /\ pc = "clean"
    /\ cleaned' = <<clean_and_deduplicate_text(raw_text, max_length)>>
    /\ pc' = "cleaned"
    /\ UNCHANGED <<scrape_vars, raw_text, max_length, recleaned, page_vars, request_vars>>

CleanAgain ==
    /\ pc = "cleaned"
    /\ recleaned' = <<clean_and_deduplicate_text(cleaned[1], max_length)>>
    /\ pc' = "recleaned"
    /\ UNCHANGED <<scrape_vars, raw_text, max_length, cleaned, page_vars, request_vars>>

NextClean == Clean \/ CleanAgain

SpecClean == InitClean /\ [][NextClean]_vars

(***************************************************************************)
(* find_terms_links called on a page and a base URL.                       *)
(***************************************************************************)
InitLinks ==
    /\ NoScrapeCall
    /\ pc = "links"
    /\ page \in AnchorPages
    /\ page_url \in BaseUrls
    /\ found = <<>>
    /\ fine_print = <<>>
    /\ NoCleanCall
    /\ NoRequest

FindTermsLinks ==
    /\ pc = "links"
    /\ found' = <<find_terms_links(page, page_url)>>
    /\ pc' = "links_done"
    /\ UNCHANGED <<scrape_vars, clean_vars, request_vars, page, page_url, fine_print>>

NextLinks == FindTermsLinks

SpecLinks == InitLinks /\ [][NextLinks]_vars

(***************************************************************************)
(* extract_fine_print_sections called on a page.                           *)
(***************************************************************************)
InitExtract ==
    /\ NoScrapeCall
    /\ pc = "extract"
    /\ page \in FinePrintPages
    /\ page_url = ""
    /\ found = <<>>
    /\ fine_print = <<>>
    /\ NoCleanCall
    /\ NoRequest

ExtractFinePrint ==
    /\ pc = "extract"
    /\ fine_print' = <<extract_fine_print_sections(page)>>
    /\ pc' = "extract_done"
    /\ UNCHANGED <<scrape_vars, clean_vars, request_vars, page, page_url, found>>

NextExtract == ExtractFinePrint

SpecExtract == InitExtract /\ [][NextExtract]_vars

(***************************************************************************)
(* The scan limits of backend/database.py.  A table maps a user_id to <<>>  *)
(* (no row) or <<row>>; last_scan_date is <<>> for None; every call in the *)
(* model is made on the day TODAY.                                         *)
(***************************************************************************)
TODAY == "2026-11-04"

YESTERDAY == "2026-11-03"

User(is_paid, last_scan_date, daily_scan_count) ==
    [is_paid |-> is_paid, last_scan_date |-> last_scan_date,
     daily_scan_count |-> daily_scan_count]

\* the table after get_or_create_user(db, user_id)
get_or_create_user(table, user_id) ==
    IF table[user_id] = <<>>
    THEN [table EXCEPT ![user_id] = <<User(FALSE, <<>>, 0)>>]
    ELSE table

\* variant: a user whose counter is at the limit is still let through
check_scan_limit_OffByOne(table, user_id) ==
    IF disable_scan_limits THEN [can_scan |-> TRUE, table |-> table]
    ELSE
        LET created == get_or_create_user(table, user_id)
            user == created[user_id][1]
            reset == IF user.last_scan_date # <<TODAY>>
                     THEN [created EXCEPT ![user_id] = <<User(user.is_paid, <<TODAY>>, 0)>>]
                     ELSE created
        IN  IF StartsWith(user_id, "admin_") \/ StartsWith(user_id, "dev_")
            THEN [can_scan |-> TRUE, table |-> created]
            ELSE IF user.is_paid
            THEN [can_scan |-> TRUE, table |-> created]
            ELSE IF reset[user_id][1].daily_scan_count > 1
            THEN [can_scan |-> FALSE, table |-> reset]
            ELSE [can_scan |-> TRUE, table |-> reset]

\* check_scan_limit(db, user_id): whether the user may scan, and the table
\* it leaves
check_scan_limit(table, user_id) ==
    IF disable_scan_limits THEN [can_scan |-> TRUE, table |-> table]
    ELSE
        LET created == get_or_create_user(table, user_id)
            user == created[user_id][1]
            reset == IF user.last_scan_date # <<TODAY>>
                     THEN [created EXCEPT ![user_id] = <<User(user.is_paid, <<TODAY>>, 0)>>]
                     ELSE created
        IN  IF StartsWith(user_id, "admin_") \/ StartsWith(user_id, "dev_")
            THEN [can_scan |-> TRUE, table |-> created]
            ELSE IF user.is_paid
            THEN [can_scan |-> TRUE, table |-> created]
            ELSE IF reset[user_id][1].daily_scan_count >= 1
            THEN [can_scan |-> FALSE, table |-> reset]
            ELSE [can_scan |-> TRUE, table |-> reset]

\* the table after increment_scan_count(db, user_id)
increment_scan_count(table, user_id) ==
    LET created == get_or_create_user(table, user_id)
        user == created[user_id][1]
    IN  IF user.last_scan_date # <<TODAY>>
        THEN [created EXCEPT ![user_id] = <<User(user.is_paid, <<TODAY>>, 1)>>]
        ELSE [created EXCEPT ![user_id] =
                <<User(user.is_paid, user.last_scan_date, user.daily_scan_count + 1)>>]

UserIds == {"free_1", "dev_7"}

\* the rows a user can have at the start of the day's requests
UserRows ==
    { User(FALSE, <<>>, 0), User(FALSE, <<YESTERDAY>>, 1),
      User(FALSE, <<TODAY>>, 0), User(FALSE, <<TODAY>>, 1),
      User(TRUE, <<YESTERDAY>>, 1) }

UserTables ==
    {[user_id \in UserIds |-> IF user_id = "free_1" THEN row ELSE <<>>] :
        row \in {<<>>} \cup {<<w>> : w \in UserRows}}

(***************************************************************************)
(* analyze_url (backend/main.py).  The handler is a coroutine: it runs      *)
(* without interruption up to await scrape_page_async(...), where other    *)
(* requests run, and from the return of the scrape to its end.             *)
(***************************************************************************)
RequestUrl == "https://shop.example.com/deals/offer"

\* 174 and 175 characters: with the section label 199 and 200 once normalized
Terms174 ==
    "Offer valid for new customers only. Cancel within 14 days for a full refund. "
        \o "A fee of 5 USD applies after the trial. Prices exclude tax and delivery. "
        \o "Gift cards expire early."

Terms175 ==
    "Offer valid for new customers only. Cancel within 14 days for a full refund. "
        \o "A fee of 5 USD applies after the trial. Prices exclude tax and delivery. "
        \o "Gift cards expire sooner."

\* what _scrape_static returns for a main page without terms links
StaticSuccess(requested, doc) ==
    LET main_text == extract_fine_print_sections(doc)
        sections ==
            (IF main_text # ""
             THEN <<"=== MAIN PAGE (" \o requested \o ") ===\n" \o main_text>>
             ELSE <<>>)
            \o <<"\n=== FULL PAGE CONTENT ===\n" \o GetTextStripped(doc)>>
        combined_text == Join(sections, "\n\n")
    IN  ScrapeResult(requested, requested, combined_text, Len(combined_text),
                     "STATIC", TRUE, <<>>)

\* what scrape_page_async(request.url, mode=AUTO) may return
ScrapeOutcomes ==
    { ScrapeResult(RequestUrl, RequestUrl, "", 0, "STATIC", FALSE,
                   <<"Failed to fetch webpage: 404 Client Error">>),
      StaticSuccess(RequestUrl, Footer50Page),
      StaticSuccess(RequestUrl,
                    << Element("p", <<>>, <<"terms-summary">>, <<>>, LongText) >>),
      StaticSuccess(RequestUrl, << Element("p", <<>>, <<>>, <<>>, Terms174) >>),
      StaticSuccess(RequestUrl, << Element("p", <<>>, <<>>, <<>>, Terms175) >>) }

\* each of these results with what line 142 makes of its content:
\* clean_and_deduplicate_text(scrape_result.content), max_length defaulted
ScrapedAndCleaned ==
    {[scrape_result |-> x,
      cleaned_text |-> clean_and_deduplicate_text(x.content, DEFAULT_MAX_LENGTH)] :
        x \in ScrapeOutcomes}

\* analyze_fine_print and AnalysisResult(**analysis_dict): both pass, the
\* first raises, or the second raises
AnalysisOutcomes == {"ok", "openai_error", "validation_error"}

\* a request that has just arrived
NewRequest(user_id) ==
    [user_id |-> user_id, at |-> "check", can_scan |-> <<>>, scrapes |-> 0,
     scrape_result |-> NoResult, cleaned_text |-> <<>>, analyses |-> 0,
     analysis |-> "", increments |-> 0, response |-> ""]

InitRequests ==
    /\ NoScrapeCall
    /\ pc = "requests"
    /\ NoCleanCall
    /\ NoPageCall
    /\ disable_scan_limits \in BOOLEAN
    /\ users \in UserTables
    /\ reqs \in [1..MaxRequests -> {NewRequest(user_id) : user_id \in UserIds}]

\* lines 112-127: the limit is checked, then the request is refused or the
\* scrape is started and awaited
CheckScanLimit(n) ==
    /\ reqs[n].at = "check"
    /\ LET checked == check_scan_limit(users, reqs[n].user_id)
       IN  /\ users' = checked.table
           /\ reqs' = [reqs EXCEPT ![n] =
                 IF ~checked.can_scan
                 THEN [@ EXCEPT !.at = "done", !.can_scan = <<FALSE>>,
                                !.response = "FREE_LIMIT_REACHED"]
                 ELSE [@ EXCEPT !.at = "scraping", !.can_scan = <<TRUE>>,
                                !.scrapes = @ + 1]]
    /\ UNCHANGED <<scrape_vars, pc, clean_vars, page_vars, disable_scan_limits>>

\* variant: the scan is counted before the analysis is made
AfterScrape_CountsFirst(n) ==
    /\ reqs[n].at = "scraping"
    /\ \E scraped \in ScrapedAndCleaned, analysis \in AnalysisOutcomes :
          LET scrape_result == scraped.scrape_result
              cleaned_text == scraped.cleaned_text
          IN  IF ~scrape_result.success
              THEN /\ reqs' = [reqs EXCEPT ![n] =
                        [@ EXCEPT !.at = "done", !.scrape_result = scrape_result,
                                  !.response = "SCRAPING_FAILED"]]
                   /\ users' = users
              ELSE IF Len(cleaned_text) < static_content_threshold
              THEN /\ reqs' = [reqs EXCEPT ![n] =
                        [@ EXCEPT !.at = "done", !.scrape_result = scrape_result,
                                  !.cleaned_text = <<cleaned_text>>,
                                  !.response = "INSUFFICIENT_CONTENT"]]
                   /\ users' = users
              ELSE /\ reqs' = [reqs EXCEPT ![n] =
                        [@ EXCEPT !.at = "done", !.scrape_result = scrape_result,
                                  !.cleaned_text = <<cleaned_text>>,
                                  !.analyses = @ + 1, !.analysis = analysis,
                                  !.increments = @ + 1,
                                  !.response = IF analysis = "ok" THEN "OK"
                                               ELSE "ANALYSIS_FAILED"]]
                   /\ users' = increment_scan_count(users, reqs[n].user_id)
    /\ UNCHANGED <<scrape_vars, pc, clean_vars, page_vars, disable_scan_limits>>

\* variant: the length of the scraped content is tested, not that of the
\* cleaned text
AfterScrape_TestsCharCount(n) ==
    /\ reqs[n].at = "scraping"
    /\ \E scraped \in ScrapedAndCleaned, analysis \in AnalysisOutcomes :
          LET scrape_result == scraped.scrape_result
              cleaned_text == scraped.cleaned_text
          IN  IF ~scrape_result.success
              THEN /\ reqs' = [reqs EXCEPT ![n] =
                        [@ EXCEPT !.at = "done", !.scrape_result = scrape_result,
                                  !.response = "SCRAPING_FAILED"]]
                   /\ users' = users
              ELSE IF scrape_result.char_count < static_content_threshold
              THEN /\ reqs' = [reqs EXCEPT ![n] =
                        [@ EXCEPT !.at = "done", !.scrape_result = scrape_result,
                                  !.cleaned_text = <<cleaned_text>>,
                                  !.response = "INSUFFICIENT_CONTENT"]]
                   /\ users' = users
              ELSE IF analysis # "ok"
              THEN /\ reqs' = [reqs EXCEPT ![n] =
                        [@ EXCEPT !.at = "done", !.scrape_result = scrape_result,
                                  !.cleaned_text = <<cleaned_text>>,
                                  !.analyses = @ + 1, !.analysis = analysis,
                                  !.response = "ANALYSIS_FAILED"]]
                   /\ users' = users
              ELSE /\ reqs' = [reqs EXCEPT ![n] =
                        [@ EXCEPT !.at = "done", !.scrape_result = scrape_result,
                                  !.cleaned_text = <<cleaned_text>>,
                                  !.analyses = @ + 1, !.analysis = analysis,
                                  !.increments = @ + 1, !.response = "OK"]]
                   /\ users' = increment_scan_count(users, reqs[n].user_id)
    /\ UNCHANGED <<scrape_vars, pc, clean_vars, page_vars, disable_scan_limits>>

\* lines 127-188: the scrape has returned; the rest of the handler
AfterScrape(n) ==
    /\ reqs[n].at = "scraping"
    /\ \E scraped \in ScrapedAndCleaned, analysis \in AnalysisOutcomes :
          LET scrape_result == scraped.scrape_result
              cleaned_text == scraped.cleaned_text
          IN  IF ~scrape_result.success
              THEN /\ reqs' = [reqs EXCEPT ![n] =
                        [@ EXCEPT !.at = "done", !.scrape_result = scrape_result,
                                  !.response = "SCRAPING_FAILED"]]
                   /\ users' = users
              ELSE IF Len(cleaned_text) < static_content_threshold
              THEN /\ reqs' = [reqs EXCEPT ![n] =
                        [@ EXCEPT !.at = "done", !.scrape_result = scrape_result,
                                  !.cleaned_text = <<cleaned_text>>,
                                  !.response = "INSUFFICIENT_CONTENT"]]
                   /\ users' = users
              ELSE IF analysis # "ok"
              THEN /\ reqs' = [reqs EXCEPT ![n] =
                        [@ EXCEPT !.at = "done", !.scrape_result = scrape_result,
                                  !.cleaned_text = <<cleaned_text>>,
                                  !.analyses = @ + 1, !.analysis = analysis,
                                  !.response = "ANALYSIS_FAILED"]]
                   /\ users' = users
              ELSE /\ reqs' = [reqs EXCEPT ![n] =
                        [@ EXCEPT !.at = "done", !.scrape_result = scrape_result,
                                  !.cleaned_text = <<cleaned_text>>,
                                  !.analyses = @ + 1, !.analysis = analysis,
                                  !.increments = @ + 1, !.response = "OK"]]
                   /\ users' = increment_scan_count(users, reqs[n].user_id)
    /\ UNCHANGED <<scrape_vars, pc, clean_vars, page_vars, disable_scan_limits>>

NextRequests ==
    \E n \in 1..MaxRequests : CheckScanLimit(n) \/ AfterScrape(n)

SpecRequests == InitRequests /\ [][NextRequests]_vars

(***************************************************************************)
(* Properties                                                              *)
(***************************************************************************)
Results == {static_result, dynamic_result, returned} \ {NoResult}

Done == pc = "done"

\* C1: in AUTO mode, once the static strategy has returned a successful
\* result with char_count >= static_content_threshold, the dynamic strategy
\* is never invoked and the call returns that static result, whatever
\* enable_dynamic_scraping is.
C1_AutoCompleteStaticNoEscalation ==
    (/\ mode = "AUTO"
     /\ static_result.success
     /\ static_result.char_count >= static_content_threshold)
    => /\ dynamic_calls = 0
       /\ browser = "none"
       /\ Done => returned = static_result

C1_Witness ==
    /\ Done
    /\ mode = "AUTO"
    /\ enable_dynamic_scraping
    /\ static_result.success
    /\ static_result.char_count >= static_content_threshold
    /\ returned = static_result

\* C2: in AUTO mode with dynamic scraping enabled, a successful incomplete
\* static result followed by a successful dynamic result with
\* char_count >= threshold makes the call return the dynamic result.
C2_AutoPrefersCompleteDynamic ==
    (/\ Done
     /\ mode = "AUTO"
     /\ enable_dynamic_scraping
     /\ static_result.success
     /\ static_result.char_count < static_content_threshold
     /\ dynamic_result.success
     /\ dynamic_result.char_count >= static_content_threshold)
    => /\ returned = dynamic_result
       /\ returned.mode_used = "DYNAMIC"
       /\ returned # static_result

C2_Witness ==
    /\ Done
    /\ mode = "AUTO"
    /\ enable_dynamic_scraping
    /\ static_result.success
    /\ static_result.char_count < static_content_threshold
    /\ dynamic_result.success
    /\ dynamic_result.char_count = static_content_threshold
    /\ returned = dynamic_result

\* C3: in AUTO mode, a successful incomplete static result is what the call
\* returns when the dynamic strategy failed or returned fewer than threshold
\* characters, also when the dynamic result has more characters than the
\* static one.
C3_AutoKeepsStatic ==
    (/\ Done
     /\ mode = "AUTO"
     /\ static_result.success
     /\ static_result.char_count < static_content_threshold
     /\ \/ ~dynamic_result.success
        \/ dynamic_result.char_count < static_content_threshold)
    => /\ returned = static_result
       /\ returned.success
       /\ returned.mode_used = "STATIC"

C3_Witness ==
    /\ Done
    /\ mode = "AUTO"
    /\ static_result.success
    /\ dynamic_result.success
    /\ dynamic_result.char_count < static_content_threshold
    /\ dynamic_result.char_count > static_result.char_count
    /\ returned = static_result

\* C4: in AUTO mode a failed static result is returned as it is and the
\* dynamic strategy is never invoked, even with dynamic scraping enabled.
C4_AutoFailedStaticNoEscalation ==
    (/\ mode = "AUTO"
     /\ static_result # NoResult
     /\ ~static_result.success)
    => /\ dynamic_calls = 0
       /\ browser = "none"
       /\ Done => returned = static_result

C4_Witness ==
    /\ Done
    /\ mode = "AUTO"
    /\ enable_dynamic_scraping
    /\ static_result # NoResult
    /\ ~static_result.success
    /\ returned = static_result

\* C5: every result of a strategy or of the orchestrator has
\* char_count = len(content).
C5_CharCountIsLength ==
    \A r \in Results : r.char_count = Len(r.content)

\* C6: a failed result has empty content, char_count 0 and an error; a
\* successful result has no error.
C6_WellFormed ==
    \A r \in Results :
        /\ ~r.success => (r.content = "" /\ r.char_count = 0 /\ r.error # <<>>)
        /\ r.success => r.error = <<>>

C6_Witness ==
    /\ Done
    /\ returned \in Results
    /\ ~returned.success
    /\ returned.mode_used = "DYNAMIC"
    /\ returned.content = ""
    /\ returned.error = <<TimeoutMessage>>

\* C7: the result the call returns has mode_used STATIC or DYNAMIC, and it is
\* the result of the strategy mode_used names.
C7_ModeUsedIsTheStrategy ==
    Done =>
        /\ returned.mode_used \in {"STATIC", "DYNAMIC"}
        /\ returned.mode_used = "STATIC" =>
              (static_calls = 1 /\ returned = static_result)
        /\ returned.mode_used = "DYNAMIC" =>
              (dynamic_calls = 1 /\ returned = dynamic_result)

C7_Witness ==
    /\ Done
    /\ mode = "DYNAMIC"
    /\ ~enable_dynamic_scraping
    /\ returned.success
    /\ returned.mode_used = "STATIC"

\* C8: in DYNAMIC mode with dynamic scraping disabled the call runs the
\* static strategy and returns its result; with dynamic scraping enabled it
\* runs the dynamic strategy only and returns its result, failed or
\* incomplete as it may be.
C8_DynamicMode ==
    mode = "DYNAMIC" =>
        IF ~enable_dynamic_scraping
        THEN /\ dynamic_calls = 0
             /\ browser = "none"
             /\ Done => (static_calls = 1 /\ returned = static_result
                            /\ static_result # NoResult)
        ELSE /\ static_calls = 0
             /\ fetch_log = <<>>
             /\ Done => (dynamic_calls = 1 /\ returned = dynamic_result
                            /\ dynamic_result # NoResult)

C8_Witness ==
    /\ Done
    /\ mode = "DYNAMIC"
    /\ enable_dynamic_scraping
    /\ returned = dynamic_result
    /\ returned.success
    /\ is_likely_incomplete(returned)

\* C9: in STATIC mode the call returns the static strategy's result and the
\* dynamic strategy is never invoked.
C9_StaticMode ==
    mode = "STATIC" =>
        /\ dynamic_calls = 0
        /\ browser = "none"
        /\ Done => (static_calls = 1 /\ returned = static_result
                       /\ static_result # NoResult)

C9_Witness ==
    /\ Done
    /\ mode = "STATIC"
    /\ enable_dynamic_scraping
    /\ returned = static_result
    /\ returned.success
    /\ is_likely_incomplete(returned)

\* the fetches of related pages so far, in order
RelatedFetches == SubSeq(fetch_log, 2, Len(fetch_log))

IsOk(f) == f.ok

IsTermsSection(section) == StartsWith(section, "\n=== TERMS PAGE (")

C11_AlwaysReturns == <>(Done /\ returned \in Results)

C11_Witness ==
    /\ Done
    /\ mode = "AUTO"
    /\ returned \in Results
    /\ \E k \in 1..Len(RelatedFetches) : ~RelatedFetches[k].ok
    /\ browser = "open"
    /\ dyn_local.success
    /\ dynamic_result.error = <<"Target closed">>

\* _scrape_dynamic has returned
DynamicReturned == pc \in {"after_dynamic", "done"} /\ dynamic_calls > 0

NavigationTimedOut == dyn_local = DynamicFailure(TimeoutMessage)

\* C13: after a navigation timeout _scrape_dynamic returns a failed DYNAMIC
\* result whose error is the timeout message; after any other failure it
\* returns a failed DYNAMIC result whose error is the text of the exception,
\* which is not the timeout message.
C13_TimeoutIdentified ==
    DynamicReturned =>
        IF NavigationTimedOut
        THEN /\ ~dynamic_result.success
             /\ dynamic_result.mode_used = "DYNAMIC"
             /\ dynamic_result.error = <<TimeoutMessage>>
        ELSE ~dynamic_result.success =>
                /\ dynamic_result.mode_used = "DYNAMIC"
                /\ dynamic_result.error # <<TimeoutMessage>>
                /\ dynamic_result.error[1] \in RenderErrors

\* the sentences of a text: its period-delimited pieces, trimmed, the empty
\* ones left out
SentencesOf(s) ==
    LET pieces == Split(s, ".")
    IN  SelectSeq([k \in 1..Len(pieces) |-> Strip(pieces[k])], NonEmpty)

\* the sentences of the input, after the whitespace runs are collapsed
InputSentences == SentencesOf(Collapse(raw_text))

\* position of the first occurrence of the sentence s in the input, 0 if none
FirstIn(s) ==
    LET at == {k \in 1..Len(InputSentences) : InputSentences[k] = s}
    IN  IF at = {} THEN 0 ELSE CHOOSE k \in at : \A m \in at : k <= m

\* the sentences seq are distinct sentences of the input, in the order of
\* their first occurrence there
DistinctInInputOrder(seq) ==
    /\ \A k \in 1..Len(seq) : FirstIn(seq[k]) > 0
    /\ \A k, m \in 1..Len(seq) : k < m => FirstIn(seq[k]) < FirstIn(seq[m])

Truncated == cleaned # <<>> /\ Len(cleaned[1]) > max_length

\* the text kept by a truncation, in front of the marker
KeptText == SubSeq(cleaned[1], 1, max_length)

\* C14 as stated: clean_and_deduplicate_text is idempotent for a fixed
\* max_length for every input, truncated first results included
C14_Idempotent == recleaned # <<>> => recleaned = cleaned

\* C14 amended: for every input whose first result was not truncated (it is
\* at most max_length characters long), cleaning the result again with the
\* same max_length returns it unchanged
C14_IdempotentUntruncated ==
    (recleaned # <<>> /\ Len(cleaned[1]) <= max_length) => recleaned = cleaned

\* a result of exactly max_length characters, shorter than its input, was
\* cleaned again
C14_Witness ==
    /\ recleaned # <<>>
    /\ Len(cleaned[1]) = max_length
    /\ Len(raw_text) > max_length
    /\ Len(InputSentences) > Len(SentencesOf(cleaned[1]))

\* C15 as stated: in every output, truncated ones included, each sentence
\* occurs once and the sentences are in the order of their first occurrence
\* in the input
C15_UniqueInOrder ==
    cleaned # <<>> =>
        LET out == SentencesOf(cleaned[1])
        IN  /\ \A k, m \in 1..Len(out) : out[k] = out[m] => k = m
            /\ \A k, m \in 1..Len(out) :
                    (k < m /\ FirstIn(out[k]) > 0 /\ FirstIn(out[m]) > 0)
                        => FirstIn(out[k]) < FirstIn(out[m])

\* the sentences of the output that a truncation left whole: all of them
\* when nothing was cut, else those in front of the last period of the kept
\* text
WholeSentences ==
    IF Truncated
    THEN LET pieces == Split(KeptText, ".")
             whole == Prefix(pieces, -1)
         IN  SelectSeq([k \in 1..Len(whole) |-> Strip(whole[k])], NonEmpty)
    ELSE SentencesOf(cleaned[1])

\* C15 amended: the sentences of an output that was not truncated, and the
\* sentences in front of the last period of the text a truncation kept, are
\* distinct sentences of the input in the order of their first occurrence
C15_WholeSentencesUniqueInOrder ==
    cleaned # <<>> => DistinctInInputOrder(WholeSentences)

\* a repeated sentence was dropped from a text with two more sentences, and
\* the output was truncated after two whole sentences
C15_Witness ==
    /\ cleaned # <<>>
    /\ \E k, m \in 1..Len(InputSentences) :
            k < m /\ InputSentences[k] = InputSentences[m] /\ Len(InputSentences[k]) > 10
    /\ Len(WholeSentences) >= 1
    /\ Truncated

\* C16 as stated: for every input, no sentence of 10 characters or fewer is
\* in the output
C16_NoShortSentence ==
    cleaned # <<>> =>
        LET out == SentencesOf(cleaned[1])
        IN  \A k \in 1..Len(out) : Len(out[k]) > 10

\* C16 amended: no sentence of 10 characters or fewer is in the output,
\* except the cut-off piece that a truncation leaves directly in front of the
\* truncation marker
C16_NoShortWholeSentence ==
    cleaned # <<>> =>
        LET pieces == Split(cleaned[1], ".")
        IN  \A k \in 1..Len(pieces) :
                (Strip(pieces[k]) # "" /\ Len(Strip(pieces[k])) <= 10)
                    => (Truncated /\ k = Len(Split(KeptText, ".")))

\* a text with a 10-character sentence was cleaned and truncated, and the
\* piece in front of the marker is a short remainder of a longer sentence
C16_Witness ==
    /\ Truncated
    /\ \E k \in 1..Len(InputSentences) : Len(InputSentences[k]) = 10
    /\ LET pieces == Split(KeptText, ".")
           last == Strip(pieces[Len(pieces)])
       IN  last # "" /\ Len(last) <= 10

\* C17 as stated: only sentences shorter than 10 characters (and repeats)
\* are discarded, so a sentence of exactly 10 characters is in an output
\* that was not truncated
C17_TenCharSentenceRetained ==
    (cleaned # <<>> /\ ~Truncated) =>
        \A k \in 1..Len(InputSentences) :
            Len(InputSentences[k]) >= 10 =>
                \E m \in 1..Len(SentencesOf(cleaned[1])) :
                    SentencesOf(cleaned[1])[m] = InputSentences[k]

\* C17 amended: sentences of 10 characters or fewer (and repeats) are
\* discarded and every sentence of 11 characters or more is kept: the
\* sentences of an output that was not truncated are exactly the input
\* sentences longer than 10 characters
C17_ElevenCharSentenceRetained ==
    (cleaned # <<>> /\ ~Truncated) =>
        {SentencesOf(cleaned[1])[m] : m \in 1..Len(SentencesOf(cleaned[1]))}
            = {InputSentences[k] : k \in
                    {n \in 1..Len(InputSentences) : Len(InputSentences[n]) > 10}}

\* a text with a sentence of 10 and a sentence of 11 characters was cleaned
\* without truncation: the first is gone, the second is there
C17_Witness ==
    /\ cleaned # <<>>
    /\ ~Truncated
    /\ \E k \in 1..Len(InputSentences) : InputSentences[k] = "Fees apply"
    /\ \E k \in 1..Len(InputSentences) : InputSentences[k] = "No refunds!"
    /\ ~Contains(cleaned[1], "Fees apply")
    /\ Contains(cleaned[1], "No refunds!")

\* the positions in the page of the anchors that match a terms pattern
MatchingAnchors ==
    {k \in 1..Len(page) :
        page[k].tag = "a" /\ page[k].href # <<>> /\ IsTermsLink(page[k])}

\* the absolute URL the anchor at position k resolves to
Resolved(k) == urljoin(page_url, page[k].href[1])

\* position of the first matching anchor that resolves to u, 0 if none
FirstAnchor(u) ==
    LET at == {k \in MatchingAnchors : Resolved(k) = u}
    IN  IF at = {} THEN 0 ELSE CHOOSE k \in at : \A m \in at : k <= m

\* C18: find_terms_links returns no URL twice: the matching anchors that
\* resolve to one absolute URL yield one entry (one at most, and exactly one
\* when the URL is an http or https one), and the entries are in the order
\* of the first anchor that produced each
C18_LinksDeduplicatedInOrder ==
    found # <<>> =>
        LET out == found[1]
        IN  /\ \A k, m \in 1..Len(out) : out[k] = out[m] => k = m
            /\ \A k \in 1..Len(out) : FirstAnchor(out[k]) > 0
            /\ \A k, m \in 1..Len(out) :
                    k < m => FirstAnchor(out[k]) < FirstAnchor(out[m])
            /\ \A a \in MatchingAnchors :
                    UrlScheme(Resolved(a)) \in {"http", "https"}
                        => \E k \in 1..Len(out) : out[k] = Resolved(a)

\* two matching anchors with different hrefs resolve to the same URL, a
\* third one to another URL, and both URLs were returned
C18_Witness ==
    /\ found # <<>>
    /\ Len(found[1]) = 2
    /\ \E a, b \in MatchingAnchors :
            /\ a < b
            /\ page[a].href # page[b].href
            /\ Resolved(a) = Resolved(b)
            /\ found[1][2] = Resolved(a)

\* C19 as stated: every URL find_terms_links returns has the scheme http or
\* https
C19_OnlyHttpSchemes ==
    found # <<>> =>
        \A k \in 1..Len(found[1]) : UrlScheme(found[1][k]) \in {"http", "https"}

\* the static strategy succeeded on a page whose only fine print, and whole
\* visible text, is the 50-character footer, and that has no matching links
FooterOnlyStatic ==
    /\ static_result.success
    /\ terms_links = <<>>
    /\ all_text = <<"=== MAIN PAGE (" \o final_url \o ") ===\n" \o Footer50Text,
                    "\n=== FULL PAGE CONTENT ===\n" \o Footer50Text>>

C21_FooterLikeIncluded ==
    fine_print # <<>> =>
        \A k \in 1..Len(page) :
            (/\ page[k].tag = "footer" \/ AttrSearch({"footer"}, page[k].class)
             /\ ElementText(page[k]) # "")
                => \E n \in 1..Len(Split(fine_print[1], "\n")) :
                        Split(fine_print[1], "\n")[n] = ElementText(page[k])

\* C25: the related pages fetched are the first min(max_related_pages,
\* number of discovered links) discovered links, each once, in discovery
\* order, after a successful fetch of the main page; a failed related fetch
\* is neither repeated nor replaced by a later link; with max_related_pages
\* = 0 none is fetched
C25_RelatedFetchesAreFirstLinks ==
    LET n == IF max_related_pages < Len(terms_links)
             THEN max_related_pages ELSE Len(terms_links)
    IN  /\ Len(fetch_log) >= 1 => fetch_log[1].url = url
        /\ Len(fetch_log) >= 2 => fetch_log[1].ok
        /\ Len(RelatedFetches) <= n
        /\ \A k \in 1..Len(RelatedFetches) : RelatedFetches[k].url = terms_links[k]
        /\ \A k, m \in 1..Len(RelatedFetches) :
                RelatedFetches[k].url = RelatedFetches[m].url => k = m
        /\ static_result.success => Len(RelatedFetches) = n

\* three links were discovered, two related pages were allowed; the first
\* fetch failed, the second link was fetched next and the third never
C25_Witness ==
    /\ static_result.success
    /\ Len(terms_links) = 3
    /\ max_related_pages = 2
    /\ Len(RelatedFetches) = 2
    /\ ~RelatedFetches[1].ok
    /\ RelatedFetches[2].url = terms_links[2]

\* C26: in one call each strategy is invoked at most once; in AUTO mode the
\* dynamic strategy is started only after the static strategy has returned;
\* and the call ends
C26_EachStrategyAtMostOnce ==
    /\ [](/\ static_calls <= 1
          /\ dynamic_calls <= 1
          /\ (mode = "AUTO" /\ dynamic_calls > 0)
                => (static_calls = 1 /\ static_result # NoResult
                    /\ pc \notin {"start", "static_main", "static_related", "after_static"}))
    /\ <>Done

\* an AUTO call that ran both strategies, the dynamic one failing, is over
C26_Witness ==
    /\ Done
    /\ mode = "AUTO"
    /\ static_calls = 1
    /\ dynamic_calls = 1
    /\ ~dynamic_result.success

\* C27: with dynamic scraping disabled no mode invokes the dynamic strategy
\* or launches a browser, every returned result has mode_used STATIC, and
\* AUTO returns a successful incomplete static result as it is
C27_DisabledMeansStaticOnly ==
    ~enable_dynamic_scraping =>
        /\ dynamic_calls = 0
        /\ browser = "none"
        /\ dynamic_result = NoResult
        /\ Done => (returned = static_result /\ returned.mode_used = "STATIC")

\* AUTO, dynamic scraping disabled, has returned a successful static result
\* that is below the threshold
C27_Witness ==
    /\ Done
    /\ mode = "AUTO"
    /\ ~enable_dynamic_scraping
    /\ static_result.success
    /\ static_result.char_count < static_content_threshold
    /\ returned = static_result

\* C28: a failed result is never treated as incomplete: in AUTO mode a failed
\* static result (char_count 0, below the threshold) does not start the
\* dynamic strategy, and a failed dynamic result is never the one returned
C28_FailedResultsNotJudgedIncomplete ==
    mode = "AUTO" =>
        /\ (static_result # NoResult /\ ~static_result.success)
                => (static_result.char_count < static_content_threshold
                    /\ dynamic_calls = 0)
        /\ (Done /\ dynamic_result # NoResult /\ ~dynamic_result.success)
                => (returned = static_result /\ returned.success)

\* AUTO with dynamic scraping enabled has returned a failed static result of
\* 0 characters without escalating
C28_Witness ==
    /\ Done
    /\ mode = "AUTO"
    /\ enable_dynamic_scraping
    /\ static_result # NoResult
    /\ ~static_result.success
    /\ static_result.char_count = 0
    /\ dynamic_calls = 0
    /\ returned = static_result

\* the positions of the input sentences that are longer than 10 characters
\* and do not repeat an earlier sentence
KeptPositions ==
    {k \in 1..Len(InputSentences) :
        /\ Len(InputSentences[k]) > 10
        /\ \A m \in 1..(k - 1) : InputSentences[m] # InputSentences[k]}

\* the rejoined deduplicated text: those sentences in input order, with ". "
\* between them
Rejoined ==
    LET nth(j) == CHOOSE k \in KeptPositions :
                      Cardinality({m \in KeptPositions : m < k}) = j - 1
    IN  Join([j \in 1..Cardinality(KeptPositions) |-> InputSentences[nth(j)]], ". ")

ScansToday(table, user_id) ==
    IF table[user_id] = <<>> THEN 0
    ELSE IF table[user_id][1].last_scan_date = <<TODAY>>
         THEN table[user_id][1].daily_scan_count
         ELSE 0

C23_InsufficientContentIsDistinct ==
    \A n \in 1..MaxRequests :
        /\ (reqs[n].at = "done" /\ reqs[n].scrapes > 0) =>
                /\ reqs[n].response = "SCRAPING_FAILED" <=> ~reqs[n].scrape_result.success
                /\ reqs[n].response = "INSUFFICIENT_CONTENT" <=>
                        /\ reqs[n].scrape_result.success
                        /\ Len(reqs[n].cleaned_text[1]) < static_content_threshold
        /\ reqs[n].response \in {"SCRAPING_FAILED", "INSUFFICIENT_CONTENT"}
                => reqs[n].analyses = 0
        /\ reqs[n].analyses > 0 =>
                /\ reqs[n].scrape_result.success
                /\ Len(reqs[n].cleaned_text[1]) >= static_content_threshold

\* one request was refused for insufficient content although its scrape had
\* 201 characters (199 once normalized), another was analysed with exactly
\* 200 normalized characters
C23_Witness ==
    \E n, m \in 1..MaxRequests :
        /\ reqs[n].response = "INSUFFICIENT_CONTENT"
        /\ reqs[n].scrape_result.char_count = 201
        /\ Len(reqs[n].cleaned_text[1]) = 199
        /\ reqs[n].analyses = 0
        /\ reqs[m].analyses = 1
        /\ Len(reqs[m].cleaned_text[1]) = 200

\* C24 as stated: with the limits on, a free user has at most one analysed
\* request a day, whatever the interleaving of the requests: the scans of
\* today never exceed 1 and at most one request of the user passes the
\* check and counts a scan
C24_OneFreeScanPerDay ==
    ~disable_scan_limits =>
        \A user_id \in UserIds :
            (/\ ~StartsWith(user_id, "admin_") /\ ~StartsWith(user_id, "dev_")
             /\ users[user_id] # <<>>
             /\ ~users[user_id][1].is_paid)
                => /\ users[user_id][1].daily_scan_count <= 1
                   /\ Cardinality({n \in 1..MaxRequests :
                            reqs[n].user_id = user_id /\ reqs[n].increments > 0}) <= 1

====
